---- MODULE Spec2Model ----
(***************************************************************************)
(* A model of tinyagent (src/main.go): the orchestration loop of main,     *)
(* the chat-completion client sendChatRequest, the file classifier         *)
(* fileType and the tool dispatcher runTool.                               *)
(*                                                                         *)
(* Text is a sequence of one-character strings where the code inspects     *)
(* characters (the content of a model response) and a sequence of longer   *)
(* tokens where it only concatenates (prompts, tool results).              *)
(***************************************************************************)
EXTENDS Integers, Sequences, FiniteSets, TLC

VARIABLES pc, exitCode, printed, mission, messages, msg, tcIdx, plans,
          chat, tool, touched, openFiles

vars == <<pc, exitCode, printed, mission, messages, msg, tcIdx, plans,
          chat, tool, touched, openFiles>>

(***************************************************************************)
(* Bounds of the model.                                                    *)
(***************************************************************************)
\* planning calls made by one run of main
MaxPlans == 2
\* tool calls carried by one planning response
MaxCalls == 2
\* HTTP 429 answers the endpoint gives to one chat request
MaxRetry == 2
\* pieces a warm-up answer is assembled from
MaxPieces == 3

(***************************************************************************)
(* Text helpers.                                                           *)
(***************************************************************************)
\* strings.LastIndex: the 0-based index of the last occurrence of sub in s,
\* -1 when there is none.
LastIndex(s, sub) ==
  LET hits == {i \in 0..(Len(s) - Len(sub)) :
                 SubSeq(s, i + 1, i + Len(sub)) = sub}
  IN  IF hits = {} THEN -1 ELSE CHOOSE i \in hits : \A j \in hits : j <= i

IsSpace(c) == c \in {" ", "\n", "\t"}

\* strings.TrimSpace: leading and trailing white space removed.
TrimSpace(s) ==
  LET keep == {i \in 1..Len(s) : ~IsSpace(s[i])}
  IN  IF keep = {} THEN <<>>
      ELSE SubSeq(s, CHOOSE i \in keep : \A j \in keep : i <= j,
                     CHOOSE i \in keep : \A j \in keep : j <= i)

\* Go's s[lo:hi] on a string, 0-based and half-open.
Slice(s, lo, hi) == SubSeq(s, lo + 1, hi)

Marker == <<"<", "/", "t", "h", "i", "n", "k", ">">>

NoThoughts == <<"This model provided no thoughts.">>

\* The end of the thoughts slice, relative to the marker's index.
ThoughtsEnd == 7
\* The start of the content slice, relative to the marker's index.
ContentStart == 8

\* Lines 184-194 of sendChatRequest: the split of the first choice's content.
ExtractThoughts(content) ==
  LET i == LastIndex(content, Marker)
  IN  IF i # -1
      THEN [content  |-> Slice(content, i + ContentStart, Len(content)),
            thoughts |-> TrimSpace(Slice(content, 0, i + ThoughtsEnd))]
      ELSE [content |-> content, thoughts |-> NoThoughts]

(***************************************************************************)
(* Paths.  A path is [abs, segs]: whether it starts with a slash, and its  *)
(* slash-separated segments; the empty string is [abs |-> FALSE,           *)
(* segs |-> <<>>].                                                         *)
(***************************************************************************)
Path(abs, segs) == [abs |-> abs, segs |-> segs]

EmptyPath == Path(FALSE, <<>>)

RECURSIVE JoinSegs(_)
JoinSegs(segs) ==
  IF segs = <<>> THEN <<>>
  ELSE IF Len(segs) = 1 THEN <<segs[1]>>
  ELSE <<segs[1], "/">> \o JoinSegs(Tail(segs))

\* The text of a path, as the code prints it with %s.
PathText(p) == (IF p.abs THEN <<"/">> ELSE <<>>) \o JoinSegs(p.segs)

\* Whether the lexically cleaned path begins with "..": some prefix of the
\* segments has more ".." than names.
RECURSIVE Climbs(_, _)
Climbs(segs, depth) ==
  IF segs = <<>> THEN FALSE
  ELSE IF Head(segs) = ".." THEN (depth = 0 \/ Climbs(Tail(segs), depth - 1))
  ELSE IF Head(segs) = "." THEN Climbs(Tail(segs), depth)
  ELSE Climbs(Tail(segs), depth + 1)

\* A check that looks for ".." at the start of the path only.
IsLocalFirstSegment(p) == ~p.abs /\ p.segs # <<>> /\ p.segs[1] # ".."

\* filepath.IsLocal, as runTool calls it: false for an absolute path and for
\* the empty path, false when the cleaned path is ".." or begins with "../";
\* purely lexical, no symbolic link is resolved.
IsLocal(p) == ~p.abs /\ p.segs # <<>> /\ ~Climbs(p.segs, 0)

\* filepath.Clean on the segments of a relative path: "." dropped, "x/.."
\* cancelled, a leading ".." kept.
RECURSIVE CleanSegs(_, _)
CleanSegs(segs, acc) ==
  IF segs = <<>> THEN acc
  ELSE IF Head(segs) = "." THEN CleanSegs(Tail(segs), acc)
  ELSE IF Head(segs) = ".." /\ acc # <<>> /\ acc[Len(acc)] # ".."
       THEN CleanSegs(Tail(segs), SubSeq(acc, 1, Len(acc) - 1))
  ELSE CleanSegs(Tail(segs), Append(acc, Head(segs)))

\* filepath.Join(dir, name) for a relative dir: the cleaned concatenation,
\* "." when nothing is left.
Join(dir, name) ==
  LET c == CleanSegs(Append(dir.segs, name), <<>>)
  IN  Path(dir.abs, IF c = <<>> THEN <<".">> ELSE c)

(***************************************************************************)
(* The file system the process runs in.  The working directory is /work.   *)
(* /work/link is a symbolic link to /etc, a directory outside it.  A file   *)
(* has a size in bytes and the offset of its first byte that breaks UTF-8  *)
(* (bad, -1 when it has none).                                             *)
(***************************************************************************)
Root == "/"
Cwd == "/work"

FS ==
  [n \in {"/", "/etc", "/etc/passwd", "/work", "/work/a.txt", "/work/b.bin",
          "/work/e.txt", "/work/link", "/work/sub", "/work/sub/c.txt",
          "/work/sub/d.dat"} |->
     CASE n = "/"               -> [kind |-> "dir",  parent |-> "/",     name |-> "",       bad |-> -1,  size |-> 0,    target |-> ""]
       [] n = "/etc"            -> [kind |-> "dir",  parent |-> "/",     name |-> "etc",    bad |-> -1,  size |-> 0,    target |-> ""]
       [] n = "/etc/passwd"     -> [kind |-> "file", parent |-> "/etc",  name |-> "passwd", bad |-> -1,  size |-> 100,  target |-> ""]
       [] n = "/work"           -> [kind |-> "dir",  parent |-> "/",     name |-> "work",   bad |-> -1,  size |-> 0,    target |-> ""]
       [] n = "/work/a.txt"     -> [kind |-> "file", parent |-> "/work", name |-> "a.txt",  bad |-> -1,  size |-> 5000, target |-> ""]
       [] n = "/work/b.bin"     -> [kind |-> "file", parent |-> "/work", name |-> "b.bin",  bad |-> 3,   size |-> 600,  target |-> ""]
       [] n = "/work/e.txt"     -> [kind |-> "file", parent |-> "/work", name |-> "e.txt",  bad |-> -1,  size |-> 0,    target |-> ""]
       [] n = "/work/link"      -> [kind |-> "link", parent |-> "/work", name |-> "link",   bad |-> -1,  size |-> 0,    target |-> "/etc"]
       [] n = "/work/sub"       -> [kind |-> "dir",  parent |-> "/work", name |-> "sub",    bad |-> -1,  size |-> 0,    target |-> ""]
       [] n = "/work/sub/c.txt" -> [kind |-> "file", parent |-> "/work/sub", name |-> "c.txt", bad |-> -1, size |-> 50, target |-> ""]
       [] n = "/work/sub/d.dat" -> [kind |-> "file", parent |-> "/work/sub", name |-> "d.dat", bad |-> 600, size |-> 700, target |-> ""]]

Nodes == DOMAIN FS

\* The names in a directory, in the order os.ReadDir returns them (sorted).
DirNames(n) ==
  CASE n = "/"         -> <<"etc", "work">>
    [] n = "/etc"      -> <<"passwd">>
    [] n = "/work"     -> <<"a.txt", "b.bin", "e.txt", "link", "sub">>
    [] n = "/work/sub" -> <<"c.txt", "d.dat">>
    [] OTHER           -> <<>>

ENOENT == "ENOENT"
ENOTDIR == "ENOTDIR"

\* What a name in a directory leads to, a symbolic link followed.
Child(n, name) ==
  LET cs == {c \in Nodes : c # n /\ FS[c].parent = n /\ FS[c].name = name}
  IN  IF cs = {} THEN ENOENT
      ELSE LET c == CHOOSE x \in cs : TRUE
           IN  IF FS[c].kind = "link" THEN FS[c].target ELSE c

\* The kernel's resolution of a path from a starting directory.
RECURSIVE Walk(_, _)
Walk(n, segs) ==
  IF n \notin Nodes \/ segs = <<>> THEN n
  ELSE IF FS[n].kind # "dir" THEN ENOTDIR
  ELSE IF Head(segs) = "."  THEN Walk(n, Tail(segs))
  ELSE IF Head(segs) = ".." THEN Walk(FS[n].parent, Tail(segs))
  ELSE Walk(Child(n, Head(segs)), Tail(segs))

\* The node a path names for os.Open and os.ReadDir, or an errno.
Resolve(p) ==
  IF p = EmptyPath THEN ENOENT
  ELSE Walk(IF p.abs THEN Root ELSE Cwd, p.segs)

\* Whether a node lies in the working directory's subtree.
RECURSIVE Inside(_)
Inside(n) ==
  IF n = Cwd THEN TRUE
  ELSE IF n = Root \/ n \notin Nodes THEN FALSE
  ELSE Inside(FS[n].parent)

ErrnoText(e) ==
  IF e = ENOENT THEN "no such file or directory" ELSE "not a directory"

(***************************************************************************)
(* Messages, tool calls and their arguments.                               *)
(***************************************************************************)
\* ChatMessage; "" and <<>> are Go's zero values.
Message(role, content, calls, id) ==
  [role |-> role, content |-> content, tool_calls |-> calls, tool_call_id |-> id]

NoMsg == Message("", <<>>, <<>>, "")

\* ToolCall: ID, Function.Name, Function.Arguments.
ToolCall(id, name, args) == [id |-> id, name |-> name, args |-> args]

\* The arguments text of a tool call: whether it is well-formed JSON, the keys
\* of the object, and their values.
Args(valid, keys, path, page, question) ==
  [valid |-> valid, keys |-> keys, path |-> path, page |-> page,
   question |-> question]

\* Lines 221-222 of runTool: json.Unmarshal into an empty map, its error
\* dropped; text that is no JSON leaves the map empty.
ParseArgs(args) == IF args.valid THEN args ELSE [args EXCEPT !.keys = {}]

\* params[key]: the zero value (the empty string) for a missing key.
ParamPath(params) == IF "path" \in params.keys THEN params.path ELSE EmptyPath
ParamPage(params) == IF "page" \in params.keys THEN params.page ELSE ""
ParamQuestion(params) ==
  IF "question" \in params.keys THEN params.question ELSE <<>>

\* strconv.Atoi with its error dropped: 0 for text that is no number.
Atoi(str) ==
  CASE str = "0" -> 0 [] str = "1" -> 1 [] str = "2" -> 2 [] str = "3" -> 3
    [] str = "-1" -> -1 [] OTHER -> 0

agentPrompt == <<"You are autonomous software developer in a codebase.">>
summaryPrompt == <<"Answer the question in plain english">>
warmupPrompt == <<"Be concise, are you ready to work?">>

\* fmt.Sprintf(userPromptFormat, mission)
UserPrompt(m) == <<"Be thorough ... My query is: ">> \o m

(***************************************************************************)
(* sendChatRequest (lines 132-196).  The request is built once, before the *)
(* loop: its body is a strings.Reader over the marshalled JSON, and every  *)
(* http.DefaultClient.Do of the loop is given that same request.           *)
(***************************************************************************)
\* reqMap: the fixed generation parameters are left out.
Request(msgs, tools) == [messages |-> msgs, tools |-> tools]

\* json.Marshal(reqMap): the body, as a sequence of chunks.
Marshal(req) == <<req>>

IdleChat ==
  [st |-> "idle", caller |-> "none", body |-> <<>>, rd |-> 0, attempts |-> 0,
   sleeps |-> 0, sent |-> <<>>, raw |-> <<>>,
   res |-> [failed |-> FALSE, err |-> <<>>, msg |-> NoMsg, thoughts |-> <<>>]]

\* Lines 134-147: the state of a call when it enters its loop.
StartChat(caller, msgs, tools) ==
  [IdleChat EXCEPT !.st = "sending", !.caller = caller,
                   !.body = Marshal(Request(msgs, tools))]

\* What one Do writes to the connection: the part of the body the reader has
\* not yet handed out.  The reader is never rewound.
Unread(c) == SubSeq(c.body, c.rd + 1, Len(c.body))

\* req.ContentLength, set by http.NewRequest from the reader's length.
ContentLength(c) == Len(c.body)

\* A Do whose request body arrives whole at the endpoint.
Delivered(c) == Len(Unread(c)) = ContentLength(c)

\* The call after a Do that delivered the request.
AfterDo(c) ==
  [c EXCEPT !.attempts = @ + 1, !.rd = Len(c.body),
            !.sent = Append(@, Unread(c))]

ChatError(c, err) ==
  [c EXCEPT !.st = "returned",
            !.res = [failed |-> TRUE, err |-> err, msg |-> NoMsg,
                     thoughts |-> <<>>]]

\* The returned message with the content as the endpoint sent it.
ChatSuccessRaw(c, m) ==
  [c EXCEPT !.st = "returned", !.raw = m.content,
            !.res = [failed |-> FALSE, err |-> <<>>, msg |-> m,
                     thoughts |-> ExtractThoughts(m.content).thoughts]]

\* Lines 184-194: the returned message is the first choice's message with its
\* content replaced by the part after the marker.
ChatSuccess(c, m) ==
  LET x == ExtractThoughts(m.content)
  IN  [c EXCEPT !.st = "returned", !.raw = m.content,
                !.res = [failed |-> FALSE, err |-> <<>>,
                         msg |-> [m EXCEPT !.content = x.content],
                         thoughts |-> x.thoughts]]

\* Line 149-152: Do fails before any answer (connection refused, reset).
ChatNetError ==
  /\ chat.st = "sending"
  /\ Delivered(chat)
  /\ chat' = ChatError([chat EXCEPT !.attempts = @ + 1],
                       <<"dial tcp: connection refused">>)
  /\ UNCHANGED <<pc, exitCode, printed, mission, messages, msg, tcIdx, plans,
                 tool, touched, openFiles>>

\* Line 149-152 on a resend: the reader is at its end, so the transport writes
\* the headers with the Content-Length of the full body and no body; Do
\* returns the transport's error.
ChatBodyError ==
  /\ chat.st = "sending"
  /\ ~Delivered(chat)
  /\ chat' = ChatError([chat EXCEPT !.attempts = @ + 1, !.rd = Len(chat.body)],
                       <<"http: ContentLength=", "N", " with Body length ",
                         "0">>)
  /\ UNCHANGED <<pc, exitCode, printed, mission, messages, msg, tcIdx, plans,
                 tool, touched, openFiles>>

\* Lines 155-158: HTTP 429, one second of sleep, and the loop goes round.
ChatRateLimited ==
  /\ chat.st = "sending"
  /\ Delivered(chat)
  /\ chat.sleeps < MaxRetry
  /\ chat' = [AfterDo(chat) EXCEPT !.sleeps = @ + 1]
  /\ UNCHANGED <<pc, exitCode, printed, mission, messages, msg, tcIdx, plans,
                 tool, touched, openFiles>>

\* A status other than 200 and 429 handled as 429 is, without the sleep.
ChatApiErrorRetries ==
  /\ chat.st = "sending"
  /\ Delivered(chat)
  /\ chat' = AfterDo(chat)
  /\ UNCHANGED <<pc, exitCode, printed, mission, messages, msg, tcIdx, plans,
                 tool, touched, openFiles>>

\* Lines 160-162: any other status than 200.
ChatApiError ==
  /\ chat.st = "sending"
  /\ Delivered(chat)
  /\ chat' = ChatError(AfterDo(chat), <<"API error: ", "500 Internal Server Error">>)
  /\ UNCHANGED <<pc, exitCode, printed, mission, messages, msg, tcIdx, plans,
                 tool, touched, openFiles>>

\* Lines 174-176: HTTP 200 with a body that is no JSON of the expected shape.
ChatDecodeError ==
  /\ chat.st = "sending"
  /\ Delivered(chat)
  /\ chat' = ChatError(AfterDo(chat), <<"failed to decode response: ", "EOF">>)
  /\ UNCHANGED <<pc, exitCode, printed, mission, messages, msg, tcIdx, plans,
                 tool, touched, openFiles>>

\* Lines 177-179: HTTP 200 with an empty choice list.
ChatNoChoices ==
  /\ chat.st = "sending"
  /\ Delivered(chat)
  /\ chat' = ChatError(AfterDo(chat), <<"no response">>)
  /\ UNCHANGED <<pc, exitCode, printed, mission, messages, msg, tcIdx, plans,
                 tool, touched, openFiles>>

(***************************************************************************)
(* What the endpoint may answer with HTTP 200.                             *)
(***************************************************************************)
\* The injective sequences over a finite set: the orders it can be put in.
Orders(S) ==
  {f \in [1..Cardinality(S) -> S] :
     \A i, j \in 1..Cardinality(S) : f[i] = f[j] => i = j}

\* The sequences over S of length at most n.
RECURSIVE SeqsUpTo(_, _)
SeqsUpTo(S, n) ==
  IF n = 0 THEN {<<>>}
  ELSE LET shorter == SeqsUpTo(S, n - 1)
       IN  shorter \cup {Append(q, x) : q \in shorter, x \in S}

RECURSIVE Flatten(_)
Flatten(qs) == IF qs = <<>> THEN <<>> ELSE Head(qs) \o Flatten(Tail(qs))

\* The answers to the warm-up question: every text assembled from at most
\* MaxPieces pieces, among them the marker and the marker without its ">".
Pieces == {<<" ">>, <<"a">>, Marker, SubSeq(Marker, 1, 7)}
WarmupContents == {Flatten(q) : q \in SeqsUpTo(Pieces, MaxPieces)}

\* The contents of a planning answer.
PlanContents ==
  {<<>>, <<"a">>, <<"t">> \o Marker \o <<"a">>,
   <<"t">> \o Marker \o <<"u">> \o Marker \o <<"b">>}

\* The tool calls a planning answer is drawn from.
PlanTemplates ==
  { [name |-> "browse_directory",
     args |-> Args(TRUE, {"path"}, Path(FALSE, <<"sub">>), "", <<>>)],
    [name |-> "study_file_contents",
     args |-> Args(TRUE, {"path", "question"}, Path(FALSE, <<"..", "x">>), "",
                   <<"q">>)],
    [name |-> "study_file_contents",
     args |-> Args(TRUE, {"path", "question"}, Path(FALSE, <<"sub", "c.txt">>),
                   "", <<"q">>)] }

\* The tool calls of the k-th planning answer, ids unique over the run.
WithIds(k, q) ==
  [i \in 1..Len(q) |-> ToolCall(ToString(10 * k + i), q[i].name, q[i].args)]

RECURSIVE IssuedCalls(_)
IssuedCalls(msgs) ==
  IF msgs = <<>> THEN 0
  ELSE Len(Head(msgs).tool_calls) + IssuedCalls(Tail(msgs))

\* The answers to the k-th planning request; a run issues at most MaxCalls
\* tool calls.
PlanAnswers(k, msgs) ==
  {Message("assistant", c, WithIds(k, q), "") :
     c \in PlanContents,
     q \in SeqsUpTo(PlanTemplates, MaxCalls - IssuedCalls(msgs))}

\* The answers to a summarization request.
SummaryAnswers ==
  {Message("assistant", c, <<>>, "") : c \in {<<"s">>, <<"t">> \o Marker \o <<"s">>}}

Answers(c) ==
  CASE c.caller = "warmup" ->
         {Message("assistant", x, <<>>, "") : x \in WarmupContents}
    [] c.caller = "plan" -> PlanAnswers(plans, c.body[1].messages)
    [] OTHER -> SummaryAnswers

\* Lines 164-194: HTTP 200 with a decodable body and at least one choice.
ChatOK ==
  /\ chat.st = "sending"
  /\ Delivered(chat)
  /\ \E m \in Answers(chat) : chat' = ChatSuccess(AfterDo(chat), m)
  /\ UNCHANGED <<pc, exitCode, printed, mission, messages, msg, tcIdx, plans,
                 tool, touched, openFiles>>

(***************************************************************************)
(* fileType (lines 200-217).  The result carries the returned text, the    *)
(* nodes the call opened and the number of file-system calls it made.      *)
(***************************************************************************)
Min(a, b) == IF a <= b THEN a ELSE b

\* Line 207: the size of the header buffer.
HeaderSize == 512

\* Lines 208-213: utf8.Valid on the bytes file.Read put in the buffer, the
\* first Min(HeaderSize, size) bytes of the file.
HeaderValid(n) == FS[n].bad = -1 \/ FS[n].bad >= Min(HeaderSize, FS[n].size)

\* The classifier without the deferred file.Close of line 205.
fileTypeNoClose(p) ==
  LET n == Resolve(p)
  IN  IF n \notin Nodes
      THEN [ret |-> <<"Error opening file: ", "open ">> \o PathText(p)
                      \o <<": ", ErrnoText(n)>>,
            opened |-> {}, ops |-> 1, held |-> {}]
      ELSE IF FS[n].kind = "dir"
      THEN [ret |-> <<"Error reading file header: ", "read ">> \o PathText(p)
                      \o <<": ", "is a directory">>,
            opened |-> {n}, ops |-> 2, held |-> {n}]
      ELSE IF FS[n].size = 0
      THEN [ret |-> <<"Error reading file header: ", "EOF">>,
            opened |-> {n}, ops |-> 2, held |-> {n}]
      ELSE [ret |-> IF HeaderValid(n) THEN <<"text">> ELSE <<"binary">>,
            opened |-> {n}, ops |-> 2, held |-> {n}]

\* held: the handles the call leaves open when it returns; the deferred
\* file.Close of line 205 leaves none.
fileType(p) ==
  LET n == Resolve(p)
  IN  IF n \notin Nodes
      THEN [ret |-> <<"Error opening file: ", "open ">> \o PathText(p)
                      \o <<": ", ErrnoText(n)>>,
            opened |-> {}, ops |-> 1, held |-> {}]
      ELSE IF FS[n].kind = "dir"
      THEN [ret |-> <<"Error reading file header: ", "read ">> \o PathText(p)
                      \o <<": ", "is a directory">>,
            opened |-> {n}, ops |-> 2, held |-> {}]
      ELSE IF FS[n].size = 0
      THEN [ret |-> <<"Error reading file header: ", "EOF">>,
            opened |-> {n}, ops |-> 2, held |-> {}]
      ELSE [ret |-> IF HeaderValid(n) THEN <<"text">> ELSE <<"binary">>,
            opened |-> {n}, ops |-> 2, held |-> {}]

(***************************************************************************)
(* runTool (lines 220-282).                                                *)
(***************************************************************************)
PageSize == 2000

IdleTool ==
  [st |-> "idle", handler |-> "", failed |-> FALSE, err |-> <<>>, res |-> <<>>,
   ops |-> 0, chats |-> 0, file |-> "", groups |-> <<>>, window |-> <<>>,
   ctype |-> <<>>]

\* return "", err
ToolFail(handler, err, ops) ==
  [IdleTool EXCEPT !.st = "returned", !.handler = handler, !.failed = TRUE,
                   !.err = err, !.ops = ops]

\* Lines 228 and 255.
PermanentError(path) ==
  <<"Permanent Error: Path ">> \o PathText(path)
    \o <<" is outside of current working directory">>

\* The directory entry of a name, a symbolic link not followed.
Entry(n, name) ==
  CHOOSE c \in Nodes : c # n /\ FS[c].parent = n /\ FS[c].name = name

\* Lines 236-243: the group an entry is filed under.
GroupOf(path, dir, name) ==
  IF FS[Entry(dir, name)].kind = "dir" THEN <<"subdirectories">>
  ELSE fileType(Join(path, name)).ret \o <<" files">>

\* Lines 235-243: filesByType, as the set of its keys and, for every key, the
\* back-quoted paths filed under it, in the order of the entries.
GroupKeys(path, dir) ==
  {GroupOf(path, dir, DirNames(dir)[i]) : i \in 1..Len(DirNames(dir))}

RECURSIVE FilesOf(_, _, _, _)
FilesOf(path, dir, names, key) ==
  IF names = <<>> THEN <<>>
  ELSE (IF GroupOf(path, dir, Head(names)) = key
        THEN <<PathText(Join(path, Head(names)))>> ELSE <<>>)
       \o FilesOf(path, dir, Tail(names), key)

\* Lines 245-248: one part per key, in the order the map is ranged over.
Parts(path, dir, order) ==
  [i \in 1..Len(order) |->
     [typ |-> order[i], files |-> FilesOf(path, dir, DirNames(dir), order[i])]]

\* The back-quote character of lines 239-249.
Backquote == "(backquote)"

RECURSIVE RenderFiles(_)
RenderFiles(files) ==
  IF files = <<>> THEN <<>>
  ELSE <<Backquote>> \o Head(files) \o <<Backquote>>
       \o (IF Len(files) > 1 THEN <<" ">> ELSE <<>>) \o RenderFiles(Tail(files))

RECURSIVE RenderParts(_)
RenderParts(parts) ==
  IF parts = <<>> THEN <<>>
  ELSE <<"- ">> \o Head(parts).typ \o <<": [">>
       \o RenderFiles(Head(parts).files) \o <<"]">>
       \o (IF Len(parts) > 1 THEN <<"\n">> ELSE <<>>) \o RenderParts(Tail(parts))

\* The file-system calls of the loop of lines 236-243: fileType on every entry.
RECURSIVE EntryOps(_, _)
EntryOps(path, names) ==
  IF names = <<>> THEN 0
  ELSE fileType(Join(path, Head(names))).ops + EntryOps(path, Tail(names))

EntryOpened(path, dir) ==
  UNION {fileType(Join(path, DirNames(dir)[i])).opened :
           i \in 1..Len(DirNames(dir))}

\* Lines 236-238: the handles the classifier calls of the loop leave open.
EntryHeld(path, dir) ==
  UNION {fileType(Join(path, DirNames(dir)[i])).held :
           i \in 1..Len(DirNames(dir))}

\* Lines 225-250: browse_directory, for one order of the map's keys.
Browse(params, order) ==
  LET path == ParamPath(params)
      dir  == Resolve(path)
  IN  IF ~IsLocal(path)
      THEN [t |-> ToolFail("browse", PermanentError(path), 0), opened |-> {},
            held |-> {}]
      ELSE IF dir \notin Nodes
      THEN [t |-> ToolFail("browse",
                           <<"Error reading directory: ", "open ">>
                             \o PathText(path) \o <<": ", ErrnoText(dir)>>, 1),
            opened |-> {}, held |-> {}]
      ELSE IF FS[dir].kind # "dir"
      THEN [t |-> ToolFail("browse",
                           <<"Error reading directory: ", "readdirent ">>
                             \o PathText(path) \o <<": ", "not a directory">>, 2),
            opened |-> {dir}, held |-> {}]
      ELSE [t |-> [IdleTool EXCEPT
                     !.st = "returned", !.handler = "browse",
                     !.groups = Parts(path, dir, order),
                     !.res = <<"analyze_path ", Backquote>> \o PathText(path)
                               \o <<Backquote, " results:\n">>
                               \o RenderParts(Parts(path, dir, order)),
                     !.ops = 2 + EntryOps(path, DirNames(dir))],
            opened |-> {dir} \cup EntryOpened(path, dir),
            held |-> EntryHeld(path, dir)]

\* The orders the keys of filesByType can be ranged over (Go randomizes the
\* iteration of a map); one empty order when the directory is not listed.
BrowseOrders(params) ==
  LET path == ParamPath(params)
      dir  == Resolve(path)
  IN  IF IsLocal(path) /\ dir \in Nodes /\ FS[dir].kind = "dir"
      THEN Orders(GroupKeys(path, dir))
      ELSE {<<>>}

\* The window with the page number taken as the offset in bytes.
WindowFromByte(n, start) ==
  IF start < 0 \/ start >= FS[n].size THEN <<"">>
  ELSE <<n, "[", ToString(start), ",",
         ToString(Min(start + PageSize, FS[n].size)), ")">>

\* Line 269: the bytes io.ReadAll gets from the section reader, as the file
\* and the half-open range of offsets; nothing for a negative offset.
Window(n, start) ==
  LET lo == start * PageSize
  IN  IF lo < 0 \/ lo >= FS[n].size THEN <<"">>
      ELSE <<n, "[", ToString(lo), ",",
             ToString(Min(lo + PageSize, FS[n].size)), ")">>

\* study_file_contents without the test of line 257: the file is opened and
\* its window sent whatever the classifier returned.
InspectNoClassify(params) ==
  LET path  == ParamPath(params)
      start == Atoi(ParamPage(params))
      ft    == fileType(path)
      n     == Resolve(path)
  IN  IF ~IsLocal(path)
      THEN [t |-> ToolFail("inspect", PermanentError(path), 0),
            opened |-> {}, held |-> {}, call |-> <<>>]
      ELSE IF n \notin Nodes
      THEN [t |-> [ToolFail("inspect",
                            <<"Error opening file: ", "open ">>
                              \o PathText(path) \o <<": ", ErrnoText(n)>>,
                            ft.ops + 1)
                     EXCEPT !.ctype = ft.ret],
            opened |-> ft.opened, held |-> ft.held, call |-> <<>>]
      ELSE [t |-> [IdleTool EXCEPT
                     !.st = "chatting", !.handler = "inspect", !.file = n,
                     !.ctype = ft.ret,
                     !.window = Window(n, start), !.ops = ft.ops + 2],
            opened |-> ft.opened \cup {n}, held |-> ft.held \cup {n},
            call |-> <<Message("system", summaryPrompt, <<>>, ""),
                       Message("user",
                               Window(n, start) \o <<"\nThe question: ">>
                                 \o ParamQuestion(params), <<>>, "")>>]

\* Lines 252-275: study_file_contents up to its chat request.  "call" is the
\* request it sends, <<>> when it returns before.
Inspect(params) ==
  LET path  == ParamPath(params)
      start == Atoi(ParamPage(params))
      ft    == fileType(path)
      n     == Resolve(path)
  IN  IF ~IsLocal(path)
      THEN [t |-> ToolFail("inspect", PermanentError(path), 0),
            opened |-> {}, held |-> {}, call |-> <<>>]
      ELSE IF ft.ret # <<"text">>
      THEN [t |-> [ToolFail("inspect",
                            <<"Not a text file (detected: ">> \o ft.ret
                              \o <<")">>, ft.ops)
                     EXCEPT !.ctype = ft.ret],
            opened |-> ft.opened, held |-> ft.held, call |-> <<>>]
      ELSE IF n \notin Nodes
      THEN [t |-> [ToolFail("inspect",
                            <<"Error opening file: ", "open ">>
                              \o PathText(path) \o <<": ", ErrnoText(n)>>,
                            ft.ops + 1)
                     EXCEPT !.ctype = ft.ret],
            opened |-> ft.opened, held |-> ft.held, call |-> <<>>]
      ELSE [t |-> [IdleTool EXCEPT
                     !.st = "chatting", !.handler = "inspect", !.file = n,
                     !.ctype = ft.ret,
                     !.window = Window(n, start), !.ops = ft.ops + 2],
            opened |-> ft.opened \cup {n}, held |-> ft.held \cup {n},
            call |-> <<Message("system", summaryPrompt, <<>>, ""),
                       Message("user",
                               Window(n, start) \o <<"\nThe question: ">>
                                 \o ParamQuestion(params), <<>>, "")>>]

\* Lines 277-281: the return of study_file_contents after its chat request.
InspectReturn(t, params, c) ==
  IF c.res.failed
  THEN [t EXCEPT !.st = "returned", !.failed = TRUE, !.chats = c.attempts,
                 !.err = <<"Error analyzing file: ">> \o c.res.err]
  ELSE [t EXCEPT !.st = "returned", !.chats = c.attempts,
                 !.res = <<"study_file_contents ">> \o PathText(ParamPath(params))
                           \o <<" results\nQuestion: ">>
                           \o ParamQuestion(params) \o <<"\nAnswer: ">>
                           \o c.res.msg.content]

(***************************************************************************)
(* The tool loop of main (lines 72-86) and the steps of runTool.           *)
(***************************************************************************)
\* The tool call main is at.
CurrentCall == msg.tool_calls[tcIdx]

InToolLoop == pc = "tools" /\ tcIdx <= Len(msg.tool_calls)

\* Line 73 to the return of runTool, or to its chat request (line 272): the
\* browser runs for the name browse_directory, the inspector for every other
\* name.
ToolStart ==
  /\ InToolLoop
  /\ tool.st = "idle"
  /\ LET params == ParseArgs(CurrentCall.args)
     IN  IF CurrentCall.name = "browse_directory"
         THEN \E order \in BrowseOrders(params) :
                /\ tool' = Browse(params, order).t
                /\ touched' = touched \cup Browse(params, order).opened
                /\ openFiles' = openFiles \cup Browse(params, order).held
                /\ UNCHANGED chat
         ELSE /\ tool' = Inspect(params).t
              /\ touched' = touched \cup Inspect(params).opened
              /\ openFiles' = openFiles \cup Inspect(params).held
              /\ IF Inspect(params).call = <<>>
                 THEN UNCHANGED chat
                 ELSE chat' = StartChat("tool", Inspect(params).call, "nil")
  /\ printed' = "status"
  /\ UNCHANGED <<pc, exitCode, mission, messages, msg, tcIdx, plans>>

\* Lines 272-281: sendChatRequest has returned to runTool, which returns; the
\* deferred file.Close runs.
ToolChatDone ==
  /\ InToolLoop
  /\ tool.st = "chatting"
  /\ chat.st = "returned"
  /\ tool' = InspectReturn(tool, ParseArgs(CurrentCall.args), chat)
  /\ chat' = IdleChat
  /\ openFiles' = openFiles \ {tool.file}
  /\ UNCHANGED <<pc, exitCode, printed, mission, messages, msg, tcIdx, plans,
                 touched>>

\* The message for a returned tool call with the error text left as it is.
ToolMessageNoPrefix(t, tc) ==
  Message("tool", IF t.failed THEN t.err ELSE t.res, <<>>, tc.id)

\* The message for a returned tool call without the ToolCallID of line 84.
ToolMessageNoId(t, tc) ==
  Message("tool", IF t.failed THEN <<"Error: ">> \o t.err ELSE t.res, <<>>, "")

\* Lines 74-85: the message main appends for a returned tool call.
ToolMessage(t, tc) ==
  Message("tool", IF t.failed THEN <<"Error: ">> \o t.err ELSE t.res, <<>>,
          tc.id)

\* Lines 74-85: runTool has returned to main.
ToolAppend ==
  /\ InToolLoop
  /\ tool.st = "returned"
  /\ messages' = Append(messages, ToolMessage(tool, CurrentCall))
  /\ tcIdx' = tcIdx + 1
  /\ tool' = IdleTool
  /\ printed' = IF tool.failed THEN "error" ELSE printed
  /\ UNCHANGED <<pc, exitCode, mission, msg, plans, chat, touched, openFiles>>

(***************************************************************************)
(* main (lines 37-94).                                                     *)
(***************************************************************************)
\* Every planning answer taken as the final answer.
IsFinalAlways(m) == TRUE

\* Line 89: whether the planning answer is displayed as the final answer.
IsFinal(m) == m.content # <<>>

\* Lines 88-92, and back to the head of the loop.
Report ==
  /\ pc = "tools"
  /\ tcIdx > Len(msg.tool_calls)
  /\ IF IsFinal(msg)
     THEN mission' = <<>> /\ printed' = "result"
     ELSE UNCHANGED <<mission, printed>>
  /\ pc' = "top"
  /\ msg' = NoMsg
  /\ tcIdx' = 0
  /\ UNCHANGED <<exitCode, messages, plans, chat, tool, touched, openFiles>>

\* Lines 42-43: the warm-up request.
WarmupCall ==
  /\ pc = "start"
  /\ chat' = StartChat("warmup", <<Message("user", warmupPrompt, <<>>, "")>>,
                       "nil")
  /\ pc' = "warmup"
  /\ printed' = "warming up"
  /\ UNCHANGED <<exitCode, mission, messages, msg, tcIdx, plans, tool, touched,
                 openFiles>>

\* Lines 44-51: the warm-up request has returned.
WarmupDone ==
  /\ pc = "warmup"
  /\ chat.st = "returned"
  /\ chat' = IdleChat
  /\ IF chat.res.failed
     THEN /\ printed' = "error"
          /\ exitCode' = 1
          /\ pc' = "exited"
          /\ UNCHANGED messages
     ELSE /\ printed' = "llm says"
          /\ messages' = <<Message("system", agentPrompt, <<>>, "")>>
          /\ pc' = "top"
          /\ UNCHANGED exitCode
  /\ UNCHANGED <<mission, msg, tcIdx, plans, tool, touched, openFiles>>

\* The lines a user types at the prompt.
Inputs == {<<>>, <<" ">>, <<"m", "1">>}

\* Line 60: the message appended for a mission read at the prompt.
MissionMessage(m) == Message("user", UserPrompt(m), <<>>, "")

\* Lines 54-57: no mission, and the input ends or is blank: break.
PromptExit ==
  /\ pc = "top"
  /\ mission = <<>>
  /\ \E eof \in BOOLEAN, text \in Inputs : eof \/ TrimSpace(text) = <<>>
  /\ pc' = "exited"
  /\ exitCode' = 0
  /\ printed' = "prompt"
  /\ UNCHANGED <<mission, messages, msg, tcIdx, plans, chat, tool, touched,
                 openFiles>>

\* The prompt with a conversation that starts afresh for each mission.
PromptMissionRestarts ==
  /\ pc = "top"
  /\ mission = <<>>
  /\ plans < MaxPlans
  /\ \E text \in Inputs :
       /\ TrimSpace(text) # <<>>
       /\ mission' = text
       /\ messages' = <<Message("system", agentPrompt, <<>>, ""),
                        MissionMessage(text)>>
       /\ chat' = StartChat("plan", <<Message("system", agentPrompt, <<>>, ""),
                                      MissionMessage(text)>>, "toolDef")
  /\ plans' = plans + 1
  /\ pc' = "planning"
  /\ printed' = "planning"
  /\ UNCHANGED <<exitCode, msg, tcIdx, tool, touched, openFiles>>

\* Lines 54-64: no mission, a non-blank line is read, and the planning
\* request is sent.
PromptMission ==
  /\ pc = "top"
  /\ mission = <<>>
  /\ plans < MaxPlans
  /\ \E text \in Inputs :
       /\ TrimSpace(text) # <<>>
       /\ mission' = text
       /\ messages' = Append(messages, MissionMessage(text))
       /\ chat' = StartChat("plan", Append(messages, MissionMessage(text)),
                            "toolDef")
  /\ plans' = plans + 1
  /\ pc' = "planning"
  /\ printed' = "planning"
  /\ UNCHANGED <<exitCode, msg, tcIdx, tool, touched, openFiles>>

\* Lines 54 and 63-64: a mission is set, the prompt is skipped, and the
\* planning request is sent.
PlanCall ==
  /\ pc = "top"
  /\ mission # <<>>
  /\ plans < MaxPlans
  /\ chat' = StartChat("plan", messages, "toolDef")
  /\ plans' = plans + 1
  /\ pc' = "planning"
  /\ printed' = "planning"
  /\ UNCHANGED <<exitCode, mission, messages, msg, tcIdx, tool, touched,
                 openFiles>>

\* The return of the planning request with "continue" in place of "return".
PlanDoneContinues ==
  /\ pc = "planning"
  /\ chat.st = "returned"
  /\ chat' = IdleChat
  /\ IF chat.res.failed
     THEN /\ printed' = "error"
          /\ pc' = "top"
          /\ UNCHANGED <<messages, msg, tcIdx, exitCode>>
     ELSE /\ messages' = Append(messages, chat.res.msg)
          /\ msg' = chat.res.msg
          /\ tcIdx' = 1
          /\ pc' = "tools"
          /\ UNCHANGED <<printed, exitCode>>
  /\ UNCHANGED <<mission, plans, tool, touched, openFiles>>

\* Lines 65-70: the planning request has returned.
PlanDone ==
  /\ pc = "planning"
  /\ chat.st = "returned"
  /\ chat' = IdleChat
  /\ IF chat.res.failed
     THEN /\ printed' = "error"
          /\ pc' = "exited"
          /\ exitCode' = 0
          /\ UNCHANGED <<messages, msg, tcIdx>>
     ELSE /\ messages' = Append(messages, chat.res.msg)
          /\ msg' = chat.res.msg
          /\ tcIdx' = 1
          /\ pc' = "tools"
          /\ UNCHANGED <<printed, exitCode>>
  /\ UNCHANGED <<mission, plans, tool, touched, openFiles>>

\* The value of the mission flag: absent, or a mission.
Flags == {<<>>, <<"m", "0">>}

Init ==
  /\ pc = "start"
  /\ exitCode = -1
  /\ printed = "none"
  /\ mission \in Flags
  /\ messages = <<>>
  /\ msg = NoMsg
  /\ tcIdx = 0
  /\ plans = 0
  /\ chat = IdleChat
  /\ tool = IdleTool
  /\ touched = {}
  /\ openFiles = {}

Next ==
  \/ WarmupCall
  \/ WarmupDone
  \/ PromptExit
  \/ PromptMission
  \/ PlanCall
  \/ PlanDone
  \/ ToolStart
  \/ ToolChatDone
  \/ ToolAppend
  \/ Report
  \/ ChatNetError
  \/ ChatBodyError
  \/ ChatRateLimited
  \/ ChatApiError
  \/ ChatDecodeError
  \/ ChatNoChoices
  \/ ChatOK

Spec == Init /\ [][Next]_vars

(***************************************************************************)
(* The tool loop on its own: main has appended a planning answer that      *)
(* carries one tool call, drawn from a wider set of names and arguments.   *)
(***************************************************************************)
ToolNames == {"browse_directory", "study_file_contents", "write_file"}

ToolPaths ==
  { Path(FALSE, <<".">>), Path(FALSE, <<"sub">>), Path(FALSE, <<"a.txt">>),
    Path(FALSE, <<"b.bin">>), Path(FALSE, <<"e.txt">>),
    Path(FALSE, <<"nofile">>), Path(FALSE, <<"sub", "c.txt">>),
    Path(FALSE, <<"sub", "d.dat">>),
    Path(FALSE, <<"..">>), Path(FALSE, <<"..", "x">>),
    Path(FALSE, <<"sub", "..", "a.txt">>),
    Path(FALSE, <<"sub", "..", "..", "etc", "passwd">>),
    Path(FALSE, <<"link">>), Path(FALSE, <<"link", "passwd">>),
    Path(TRUE, <<"etc", "passwd">>), Path(TRUE, <<"work", "a.txt">>),
    EmptyPath }

ToolArgs ==
  {Args(TRUE, {"path", "question"}, p, "", <<"q">>) : p \in ToolPaths}
  \cup {Args(TRUE, {"path", "question", "page"}, Path(FALSE, <<"a.txt">>), g,
             <<"q">>) : g \in {"0", "1", "2", "3", "-1", "x"}}
  \cup {Args(TRUE, ks, EmptyPath, "", <<"q">>) : ks \in {{}, {"question"}}}
  \cup {Args(FALSE, {"path", "question"}, p, "", <<"q">>) :
          p \in {Path(FALSE, <<"a.txt">>), Path(FALSE, <<".">>)}}

InitTool ==
  /\ pc = "tools"
  /\ exitCode = -1
  /\ printed = "planning"
  /\ mission = <<"m", "1">>
  /\ \E name \in ToolNames, args \in ToolArgs :
       /\ msg = Message("assistant", <<>>, <<ToolCall("11", name, args)>>, "")
       /\ messages = <<Message("system", agentPrompt, <<>>, ""),
                       MissionMessage(<<"m", "1">>), msg>>
  /\ tcIdx = 1
  /\ plans = 1
  /\ chat = IdleChat
  /\ tool = IdleTool
  /\ touched = {}
  /\ openFiles = {}

NextTool ==
  \/ ToolStart
  \/ ToolChatDone
  \/ ToolAppend
  \/ Report
  \/ ChatNetError
  \/ ChatBodyError
  \/ ChatRateLimited
  \/ ChatApiError
  \/ ChatDecodeError
  \/ ChatNoChoices
  \/ ChatOK

SpecTool == InitTool /\ [][NextTool]_vars

(***************************************************************************)
(* Properties.                                                             *)
(***************************************************************************)
\* The tool-role messages main has appended for the planning answer it is at.
ResultsSoFar ==
  SubSeq(messages, Len(messages) - (tcIdx - 1) + 1, Len(messages))

\* While main is in the tool loop at call tcIdx, the Conversation ends with the
\* planning answer followed by one tool message for each earlier call, in the
\* order of the calls, and none for the call that is running.
C1_Appended ==
  pc = "tools" =>
    /\ Len(messages) - (tcIdx - 1) >= 1
    /\ messages[Len(messages) - (tcIdx - 1)] = msg
    /\ \A j \in 1..(tcIdx - 1) :
         /\ ResultsSoFar[j].role = "tool"
         /\ ResultsSoFar[j].tool_call_id = msg.tool_calls[j].id

\* A step of the tool loop that changes the Conversation appends exactly the
\* message for the returned call: its id, and its result or "Error: " and the
\* error text; and the loop is left only when every call has its message.
C1_Step ==
  /\ (pc = "tools" /\ messages' # messages) =>
       /\ tool.st = "returned"
       /\ tcIdx' = tcIdx + 1
       /\ messages' =
            Append(messages,
                   Message("tool",
                           IF tool.failed THEN <<"Error: ">> \o tool.err
                                          ELSE tool.res,
                           <<>>, msg.tool_calls[tcIdx].id))
  /\ (pc = "tools" /\ tool.st = "returned" /\ tool'.st # "returned") =>
       messages' # messages
  /\ (pc = "tools" /\ pc' # "tools") => tcIdx = Len(msg.tool_calls) + 1

\* C1: for every tool call of every planning answer the loop appends exactly
\* one tool message carrying the call's id, on success and on error (then with
\* the content "Error: " and the error text), in the order of the calls, each
\* before the next call starts.
C1_OneResultPerCall == [](C1_Appended) /\ [][C1_Step]_vars

\* A planning answer with two calls, of which the first failed and the second
\* succeeded, has both its tool messages.
C1_Witness ==
  /\ pc = "tools"
  /\ tcIdx = 3
  /\ Len(msg.tool_calls) = 2
  /\ Head(ResultsSoFar[1].content) = "Error: "
  /\ Head(ResultsSoFar[2].content) # "Error: "

\* C2 (as claimed): the Mission is cleared by a planning answer only when the
\* answer has non-empty content and carries no tool calls.
C2_ClearedOnlyWithoutCalls ==
  [][(mission # <<>> /\ mission' = <<>>) =>
       (msg.content # <<>> /\ msg.tool_calls = <<>>)]_vars

\* C3 (as claimed): every planning request carries a user message with the
\* text of the active mission.
C3_PlanCarriesMission ==
  (chat.st = "sending" /\ chat.caller = "plan") =>
    \E i \in 1..Len(chat.body[1].messages) :
      chat.body[1].messages[i] = MissionMessage(mission)

\* A step in which main takes the failure of a planning request.
PlanFailureStep ==
  pc = "planning" /\ chat.st = "returned" /\ chat.res.failed /\ pc' # pc

\* C4 (as claimed): after a failed planning request the process goes on: control
\* is back at the head of the loop.
C4_FailureReturnsToLoop == [][PlanFailureStep => pc' = "top"]_vars

\* C4 (amended): a failed planning request ends the process: its error is
\* printed, main returns with status 0, the Conversation and the Mission are
\* left as they were, and no step follows.
C4_FailureEndsProcess ==
  [][/\ pc # "exited"
     /\ PlanFailureStep =>
          /\ pc' = "exited"
          /\ exitCode' = 0
          /\ printed' = "error"
          /\ messages' = messages
          /\ mission' = mission]_vars

\* main has returned on a failed planning request.
C4_Witness == pc = "exited" /\ exitCode = 0 /\ printed = "error" /\ plans >= 1

\* C5 (as claimed): a call that was answered 429 k times and has returned has
\* put k+1 requests on the wire, each with the whole body.
C5_ResendsIdenticalRequest ==
  (chat.st = "returned" /\ chat.sleeps > 0) =>
    /\ Len(chat.sent) = chat.sleeps + 1
    /\ \A i \in 1..Len(chat.sent) : chat.sent[i] = chat.body

\* The nodes outside the working directory's subtree.
Outside == {n \in Nodes : ~Inside(n)}

\* C6 (as claimed): no tool opens, reads or lists a file-system object outside
\* the working directory.
C6_ReadsStayInside == touched \cap Outside = {}

\* The path argument of the tool call main is at.
CurrentPath == ParamPath(ParseArgs(CurrentCall.args))

KnownTool == CurrentCall.name \in {"browse_directory", "study_file_contents"}

\* The invocation made no file-system call and no chat request, and ended with
\* the permanent error that names the path.
RejectedUntouched ==
  /\ tool.st = "returned"
  /\ tool.failed
  /\ tool.err = PermanentError(CurrentPath)
  /\ tool.ops = 0
  /\ tool.chats = 0
  /\ chat.st = "idle"
  /\ openFiles = {}

HasParentSegment(p) == \E i \in 1..Len(p.segs) : p.segs[i] = ".."

\* C7 (as claimed): a path that is absolute or contains a ".." segment is
\* rejected by both tools before any file-system call or chat request.
C7_DotDotRejected ==
  (InToolLoop /\ tool.st # "idle" /\ KnownTool
     /\ (CurrentPath.abs \/ HasParentSegment(CurrentPath)))
  => RejectedUntouched

\* C7 (amended): a path that is absolute, or whose ".." segments lead above
\* the working directory (its cleaned form is ".." or begins with "../"), is
\* rejected by both tools before any file-system call or chat request.
C7_EscapeRejected ==
  (InToolLoop /\ tool.st # "idle" /\ KnownTool
     /\ (CurrentPath.abs \/ Climbs(CurrentPath.segs, 0)))
  => RejectedUntouched

\* study_file_contents has returned for a path that climbs out after a name.
C7_Witness ==
  /\ InToolLoop
  /\ tool.st = "returned"
  /\ CurrentCall.name = "study_file_contents"
  /\ CurrentPath = Path(FALSE, <<"sub", "..", "..", "etc", "passwd">>)
  /\ tool.err = PermanentError(CurrentPath)

\* C8 (as claimed): browse_directory without a path argument lists the working
\* directory.
C8_DefaultsToCwd ==
  (InToolLoop /\ tool.st = "returned"
     /\ CurrentCall.name = "browse_directory"
     /\ "path" \notin ParseArgs(CurrentCall.args).keys)
  => /\ ~tool.failed
     /\ {tool.groups[i].typ : i \in 1..Len(tool.groups)}
          = GroupKeys(Path(FALSE, <<".">>), Cwd)

\* C9 (as claimed): with the marker in the content, the thoughts are the
\* trimmed text up to and including the whole marker and the content is the
\* text after it; without it, the sentinel and the content as it was.
C9_SplitKeepsMarker ==
  (chat.st = "returned" /\ ~chat.res.failed) =>
    LET i == LastIndex(chat.raw, Marker)
    IN  IF i # -1
        THEN /\ chat.res.thoughts
                  = TrimSpace(Slice(chat.raw, 0, i + Len(Marker)))
             /\ chat.res.msg.content
                  = Slice(chat.raw, i + Len(Marker), Len(chat.raw))
        ELSE /\ chat.res.thoughts = NoThoughts
             /\ chat.res.msg.content = chat.raw

\* C10 (as claimed): for a name other than the two tool names neither handler
\* runs: no file-system call is made, no file is open and no chat request is
\* sent.
C10_UnknownNameRunsNothing ==
  (InToolLoop /\ ~KnownTool) =>
    /\ tool.ops = 0
    /\ chat.st = "idle"
    /\ openFiles = {}

\* The inspector is running or has returned for the current tool call, on a
\* path that passed the test of line 254.
Inspecting ==
  /\ InToolLoop
  /\ tool.st # "idle"
  /\ CurrentCall.name # "browse_directory"
  /\ IsLocal(CurrentPath)

\* C11: when the classifier's result for the path of a study_file_contents
\* call is not "text", the call has returned the error that states the
\* detected type after the classifier's file-system calls only, it read no
\* window, it holds no open file and it sent no chat request.
C11_NonTextNotSent ==
  (Inspecting /\ fileType(CurrentPath).ret # <<"text">>) =>
    /\ tool.st = "returned"
    /\ tool.failed
    /\ tool.err = <<"Not a text file (detected: ">>
                    \o fileType(CurrentPath).ret \o <<")">>
    /\ tool.ops = fileType(CurrentPath).ops
    /\ tool.window = <<>>
    /\ tool.chats = 0
    /\ chat.st = "idle"
    /\ openFiles = {}

\* A study_file_contents call on b.bin has returned "detected: binary".
C11_Witness ==
  /\ Inspecting
  /\ CurrentCall.name = "study_file_contents"
  /\ CurrentPath = Path(FALSE, <<"b.bin">>)
  /\ tool.st = "returned"
  /\ tool.err = <<"Not a text file (detected: ", "binary", ")">>

\* The conversation exists: line 51 has run.
HasConversation == pc \notin {"start", "warmup"} /\ exitCode # 1

\* C12 (state): once created, the conversation starts with the system message
\* that carries the agent prompt and holds no other system message.
C12_SystemFirst ==
  HasConversation =>
    /\ Len(messages) >= 1
    /\ messages[1] = Message("system", agentPrompt, <<>>, "")
    /\ \A i \in 2..Len(messages) : messages[i].role # "system"

\* C12 (step): a step after the creation of the conversation leaves it as it
\* is or appends to it.
C12_Extends ==
  HasConversation =>
    /\ Len(messages') >= Len(messages)
    /\ SubSeq(messages', 1, Len(messages)) = messages

\* C12: the conversation is append-only and its first message is always the
\* single system message, across missions.
C12_AppendOnly == [](C12_SystemFirst) /\ [][C12_Extends]_vars

\* A second mission has been read at the prompt and planned, after the whole
\* exchange of a first one.
C12_Witness ==
  /\ pc = "tools"
  /\ Len(messages) >= 5
  /\ Cardinality({i \in 1..Len(messages) : messages[i].role = "user"}) = 2
  /\ messages[Len(messages)].role = "assistant"

\* The index of the nearest message before the i-th that is not a tool
\* message, 0 when there is none.
Opener(i) ==
  LET before == {j \in 1..(i - 1) : messages[j].role # "tool"}
  IN  IF before = {} THEN 0
      ELSE CHOOSE j \in before : \A h \in before : h <= j

\* C13: every tool message of the conversation has the id of one of the tool
\* calls of the nearest assistant message before it, with only tool messages
\* in between.
C13_ToolMessagesAnswerCalls ==
  \A i \in 1..Len(messages) :
    messages[i].role = "tool" =>
      /\ Opener(i) # 0
      /\ messages[Opener(i)].role = "assistant"
      /\ \E k \in 1..Len(messages[Opener(i)].tool_calls) :
           messages[Opener(i)].tool_calls[k].id = messages[i].tool_call_id

\* The results of two tool calls of one planning answer are in the
\* conversation, under two different ids.
C13_Witness ==
  \E i \in 1..Len(messages) :
    /\ i + 1 <= Len(messages)
    /\ messages[i].role = "tool"
    /\ messages[i + 1].role = "tool"
    /\ messages[i].tool_call_id = "11"
    /\ messages[i + 1].tool_call_id = "12"

\* The errors sendChatRequest returns for a failed Do, a status other than
\* 200 and 429, an undecodable body and an empty choice list.
CallErrors ==
  { <<"dial tcp: connection refused">>,
    <<"http: ContentLength=", "N", " with Body length ", "0">>,
    <<"API error: ", "500 Internal Server Error">>,
    <<"failed to decode response: ", "EOF">>,
    <<"no response">> }

\* C14 (state): every Do of a call but its last was answered with 429: a call
\* in its loop has made as many requests as it slept, and a returned call one
\* more; a failed call carries one of the four errors.
C14_NoRequestAfterFailure ==
  /\ chat.st = "sending" => chat.attempts = chat.sleeps
  /\ chat.st = "returned" =>
       /\ chat.attempts = chat.sleeps + 1
       /\ chat.res.failed => chat.res.err \in CallErrors

\* C14 (step): the failure is returned by the step that meets it, and a
\* returned call makes no further request.
C14_EndsStep ==
  /\ (chat.st = "sending" /\ chat'.st = "returned") =>
       /\ chat'.attempts = chat.attempts + 1
       /\ chat'.sleeps = chat.sleeps
  /\ chat.st = "returned" => (chat' = chat \/ chat'.st = "idle")

\* C14: a failed Do, a status other than 200 and 429, an undecodable body or
\* an empty choice list ends the call at once with an error and no further
\* request, also after attempts that were answered with 429.
C14_FailureEndsCall == [](C14_NoRequestAfterFailure) /\ [][C14_EndsStep]_vars

\* A call has returned an error on the attempt that followed a 429.
C14_Witness ==
  /\ chat.st = "returned"
  /\ chat.res.failed
  /\ chat.sleeps = 1
  /\ chat.attempts = 2

\* C15 (as claimed): for a regular file the classifier returns "text" when
\* the first Min(HeaderSize, size) bytes are valid UTF-8 and "binary" when
\* they are not, the empty file and the file shorter than the buffer included.
C15_TextOrBinary ==
  (/\ Inspecting
   /\ Resolve(CurrentPath) \in Nodes
   /\ FS[Resolve(CurrentPath)].kind = "file") =>
    tool.ctype = IF HeaderValid(Resolve(CurrentPath))
                 THEN <<"text">> ELSE <<"binary">>

\* The browser has returned a listing for the current tool call.
Listed ==
  /\ InToolLoop
  /\ CurrentCall.name = "browse_directory"
  /\ tool.st = "returned"
  /\ ~tool.failed

\* The places of the listing a path is printed at.
PlacesOf(file) ==
  {<<i, j>> \in (1..Len(tool.groups)) \X (1..Len(DirNames(Cwd))) :
     j <= Len(tool.groups[i].files) /\ tool.groups[i].files[j] = file}

Headers ==
  {<<"text", " files">>, <<"binary", " files">>, <<"subdirectories">>}

\* C16 (as claimed): in a listing every immediate child of the directory is
\* printed once, under one header, and every header is "text files", "binary
\* files" or "subdirectories".
C16_ThreeHeaders ==
  Listed =>
    LET dir == Resolve(CurrentPath)
    IN  /\ \A k \in 1..Len(DirNames(dir)) :
             Cardinality(PlacesOf(PathText(Join(CurrentPath,
                                                DirNames(dir)[k])))) = 1
        /\ \A i \in 1..Len(tool.groups) : tool.groups[i].typ \in Headers

\* The page number of the current tool call.
CurrentPage == Atoi(ParamPage(ParseArgs(CurrentCall.args)))

\* The inspector has opened the file of the current tool call and read its
\* window.
WindowRead == Inspecting /\ tool.file # ""

C18_HandlesClosed ==
  (tool.st \in {"idle", "returned"} \/ pc # "tools") => openFiles = {}

\* The inspector opened its file, its chat request failed and it has
\* returned.
C18_Witness ==
  /\ InToolLoop
  /\ tool.st = "returned"
  /\ tool.handler = "inspect"
  /\ tool.failed
  /\ tool.chats >= 1
  /\ tool.file \in touched
  /\ openFiles = {}

\* C19 (mission set): the mission changes from empty only at the prompt, to
\* the non-blank line read there, which is planned at once.
MissionRead ==
  /\ mission = <<>>
  /\ pc = "top"
  /\ TrimSpace(mission') # <<>>
  /\ messages' = Append(messages, MissionMessage(mission'))
  /\ pc' = "planning"

\* C19 (mission cleared): the mission changes from non-empty only to empty,
\* after the tool loop of a planning answer with non-empty content.
MissionCleared ==
  /\ mission # <<>>
  /\ mission' = <<>>
  /\ pc = "tools"
  /\ msg.content # <<>>
  /\ pc' = "top"

\* C19 (step): the mission changes in these two ways only; while it is set no
\* prompt is shown and no user message is appended; the tool loop of an
\* answer with empty content ends with the mission as it was; and with a
\* mission set the head of the loop only sends the next planning request, on
\* the conversation as extended.
C19_Step ==
  /\ mission' # mission => (MissionRead \/ MissionCleared)
  /\ mission # <<>> =>
       /\ printed' # "prompt"
       /\ Len(messages') > Len(messages)
            => messages'[Len(messages')].role # "user"
  /\ (pc = "tools" /\ pc' = "top" /\ msg.content = <<>>) => mission' = mission
  /\ (pc = "top" /\ mission # <<>>) =>
       /\ pc' = "planning"
       /\ mission' = mission
       /\ messages' = messages
       /\ chat'.st = "sending"
       /\ chat'.body = Marshal(Request(messages, "toolDef"))

\* C19: an active mission is kept, without a prompt, until a planning answer
\* has non-empty content, and every answer with empty content is followed by
\* another planning request on the extended conversation.
C19_MissionKeptUntilAnswer == [][C19_Step]_vars

\* The second planning request of one mission is out, after an answer with
\* empty content and its tool results.
C19_Witness ==
  /\ pc = "planning"
  /\ plans = 2
  /\ mission = <<"m", "1">>
  /\ Len(messages) >= 4
  /\ messages[2] = MissionMessage(<<"m", "1">>)
  /\ messages[3].role = "assistant"
  /\ messages[3].content = <<>>
  /\ messages[Len(messages)].role = "tool"
  /\ chat.body = Marshal(Request(messages, "toolDef"))

\* No assistant message of a sequence of messages has the marker in its
\* content.
NoMarker(msgs) ==
  \A i \in 1..Len(msgs) :
    msgs[i].role = "assistant" => LastIndex(msgs[i].content, Marker) = -1

\* C20: the assistant message that is stored is the one returned after the
\* split, so no assistant message of the conversation, and none of a request
\* that is sent, has the marker in its content.
C20_NoThoughtsStored ==
  /\ NoMarker(messages)
  /\ NoMarker(<<msg>>)
  /\ chat.st # "idle" => NoMarker(chat.body[1].messages)
  /\ (chat.st = "returned" /\ ~chat.res.failed) => NoMarker(<<chat.res.msg>>)

\* A planning request carries the assistant message of an answer that had
\* text before and between two markers: only the text after the last one.
C20_Witness ==
  /\ chat.st = "sending"
  /\ chat.caller = "plan"
  /\ \E i \in 1..Len(chat.body[1].messages) :
       /\ chat.body[1].messages[i].role = "assistant"
       /\ chat.body[1].messages[i].content = <<"b">>
       /\ messages[i] = chat.body[1].messages[i]

====
